---- MODULE Spec2Model ----
(***************************************************************************)
(* A model of beep (src/beep-main.c): command line parsing into a chain of *)
(* beep_parms_T, driver detection, the playback loop of play_beep, the     *)
(* signal install / nanosleep / restore discipline of sleep_ms, and the    *)
(* stdin-triggered loop of main.  One action per C statement that touches  *)
(* the driver, the signal dispositions, stdin or stdout, so that a signal  *)
(* can be delivered between any two of them.                               *)
(*                                                                         *)
(* signal() is taken with the semantics glibc gives it by default (BSD:    *)
(* the handler stays installed after it ran).  nanosleep is never          *)
(* restarted after a handler ran: it returns -1 with errno EINTR.          *)
(*                                                                         *)
(* The driver functions (beep_drivers_detect, _begin_tone, _end_tone,      *)
(* _fini) are not part of beep-main.c: the model records each call in a    *)
(* history; detection is modelled from the specification's section 4.3,   *)
(* with the answer of each driver's open taken from the environment.      *)
(* Logging, the version/verbosity options and setvbuf change none of the   *)
(* modelled state and are left out.                                        *)
(***************************************************************************)
EXTENDS Integers, Sequences, FiniteSets, TLC

(* ------------------------------ bounds -------------------------------- *)
\* largest repetition count given with -r
MaxReps == 2
\* most requests in a chain (one more than the number of -n)
MaxChain == 2
\* most characters on stdin
MaxInput == 3
\* most signals delivered in one run
MaxSignals == 2
\* the size of main's read buffer sin[] (4096 in the source), scaled down so
\* that lines longer than the buffer occur within MaxInput
SinSize == 3

(* ------------------------- program constants -------------------------- *)
DEFAULT_FREQ == 440
DEFAULT_LENGTH == 200
DEFAULT_REPS == 1
DEFAULT_DELAY == 100
END_DELAY_NO == 0
END_DELAY_YES == 1
STDIN_BEEP_NONE == 0
STDIN_BEEP_LINE == 1
STDIN_BEEP_CHAR == 2
\* upper limit of -f, in Hz
MAX_FREQ == 20000
\* upper limit of -l, -r, -d, -D
MAX_ARG == 300000
\* parms.freq & 0xffff
FREQ_MASK == 65536

Signals == {"SIGINT", "SIGTERM"}

Min(a, b) == IF a < b THEN a ELSE b

\* the smallest element of a non-empty set of integers
Least(S) == CHOOSE x \in S : \A y \in S : x <= y

(* --------------------------- command line ----------------------------- *)
\* One element of argv as getopt_long hands it over: the option character
\* and its argument.  The argument of -f is in tenths of a Hz (a decimal
\* with one fractional digit), every other argument is an integer.
Opt(o, v) == [opt |-> o, val |-> v]

\* the parms block main and -n allocate
DefaultParms ==
    [freq |-> 0, length |-> DEFAULT_LENGTH, reps |-> DEFAULT_REPS,
     delay |-> DEFAULT_DELAY, end_delay |-> END_DELAY_NO,
     stdin_beep |-> STDIN_BEEP_NONE]

\* (int)(argval_f + 0.5f) for argval_f = tenths/10 >= 0
RoundTenths(t) == (t + 5) \div 10

\* the range check of -f: (0.0f > argval_f) || (argval_f > 20000.0f)
FreqOutOfRange(t) == t < 0 \/ t > MAX_FREQ * 10

\* the range check of -l -r -d -D; a negative or non-numeric argument
\* fails sscanf("%u") or wraps far beyond the limit
ArgOutOfRange(u) == u < 0 \/ u > MAX_ARG

\* if (result->freq == 0) result->freq = DEFAULT_FREQ;
DefaultFreq(p) == IF p.freq = 0 THEN [p EXCEPT !.freq = DEFAULT_FREQ] ELSE p


\* the suffix of s after its first n elements
Drop(s, n) == SubSeq(s, n + 1, Len(s))

(* ------------------------------ inputs -------------------------------- *)
\* -f arguments, in tenths of a Hz: 0, 0.4, 440.5, 20000, 20000.1
FreqTenths == {0, 4, 4405, MAX_FREQ * 10, MAX_FREQ * 10 + 1}

FreqOpts == {<<>>} \cup {<<Opt("f", t)>> : t \in FreqTenths}
RepOpts == {<<>>} \cup {<<Opt("r", n)>> : n \in 0..MaxReps}
DelayOpts == {<<>>, <<Opt("d", 50)>>, <<Opt("D", 50)>>}
StdinOpts == {<<>>, <<Opt("s", 0)>>, <<Opt("c", 0)>>}

\* the options of one request, in the order -f -r -d/-D -s/-c
ReqOpts(fs, rs, ds, ss) ==
    {f \o r \o d \o s : f \in fs, r \in rs, d \in ds, s \in ss}

\* chains of exactly m requests drawn from R, joined by -n
RECURSIVE ChainArgvs(_, _)
ChainArgvs(R, m) ==
    IF m = 1 THEN R
    ELSE {a \o <<Opt("n", 0)>> \o b : a \in ChainArgvs(R, m - 1), b \in R}

\* one request: every -r, delay and stdin mode
PlayArgvs == ReqOpts({<<>>}, RepOpts, DelayOpts, StdinOpts)

\* -f once, -f twice, and -f on either side of -n
FreqArgvs ==
    ReqOpts(FreqOpts, {<<>>}, {<<>>}, {<<>>})
    \cup {<<Opt("f", t), Opt("f", u)>> : t, u \in {0, 4405}}
    \cup ChainArgvs(ReqOpts({<<>>, <<Opt("f", 0)>>, <<Opt("f", 4405)>>},
                            {<<>>}, {<<>>}, {<<>>}), 2)

\* chains of 2..MaxChain requests, each the default request or one with a
\* repetition count or the per-line mode, and the chains of two requests
\* with either stdin mode or none
ChainReqs ==
    {<<>>, <<Opt("r", 0)>>, <<Opt("r", MaxReps)>>, <<Opt("s", 0)>>}
ManyArgvs ==
    UNION {ChainArgvs(ChainReqs, m) : m \in 2..MaxChain}
    \cup ChainArgvs(StdinOpts, 2)

\* --device once and twice, --help, an unknown option, a non-option
\* argument, -l, and arguments beyond their limit
MiscArgvs ==
    {<<Opt("e", 0)>>, <<Opt("e", 0), Opt("e", 0)>>,
     <<Opt("e", 0), Opt("s", 0)>>, <<Opt("h", 0)>>, <<Opt("?", 0)>>,
     <<Opt("nonopt", 0)>>, <<Opt("l", 50)>>, <<Opt("l", MAX_ARG + 1)>>,
     <<Opt("r", MAX_ARG + 1)>>, <<Opt("d", MAX_ARG + 1)>>,
     <<Opt("D", MAX_ARG + 1)>>, <<Opt("f", -1)>>}

ArgvSet == PlayArgvs \cup FreqArgvs \cup ManyArgvs \cup MiscArgvs

RECURSIVE SeqsUpTo(_, _)
SeqsUpTo(S, n) ==
    IF n = 0 THEN {<<>>}
    ELSE LET T == SeqsUpTo(S, n - 1)
         IN  T \cup {Append(t, c) : t \in {u \in T : Len(u) = n - 1}, c \in S}

\* the contents of stdin: every text of letters and newlines up to MaxInput
\* bytes, and two inputs that hold a NUL byte
Inputs ==
    SeqsUpTo({"a", "NL"}, MaxInput)
    \cup {<<"NUL", "NL">>, <<"a", "NUL", "a">>}

\* does the command line ask for stdin-triggered mode
UsesStdin(av) == \E k \in 1..Len(av) : av[k].opt \in {"s", "c"}

(* ------------------------------- state -------------------------------- *)
VARIABLES
    argv,               \* the options of the command line
    optind,             \* index of the next option getopt_long returns
    chain,              \* the list of beep_parms_T from main's parms on
    param_device_name,  \* TRUE when --device was given (not NULL)
    pc,                 \* the statement the program is about to execute
    status,             \* "running", "success", "failure" or "killed"
    parms,              \* main's parms: index into chain, Len(chain)+1 = NULL
    i,                  \* play_beep's loop counter
    sleep_kind,         \* which sleep_ms call is active: "length" or "delay"
    driver,             \* main's driver: 0 = NULL, else the handle detected
    drv,                \* the handle's lifecycle state
    disp,               \* disposition of SIGINT and SIGTERM
    stdin,              \* the bytes not yet read from stdin
    sin,                \* main's read buffer, as fgets filled it
    ptr,                \* the per-character loop's position in sin
    stdout,             \* the bytes written to stdout
    stdout_tty,         \* isatty(STDOUT_FILENO), fixed when detection fails
    log,                \* history: the calls made, in order
    input,              \* history: stdin as it was at program start
    delivered,          \* history: number of signals delivered
    eintr_at,           \* history: Len(log) when nanosleep gave EINTR, else -1
    freed,              \* history: the chain indices passed to free()
    td_sigs,            \* history: signals delivered after that EINTR
    tried,              \* beep_drivers_detect: the opens attempted so far
    detect_ret          \* beep_drivers_detect: "pending", "handle" or its error

vars == <<argv, optind, chain, param_device_name, pc, status, parms, i,
          sleep_kind, driver, drv, disp, stdin, sin, ptr, stdout, stdout_tty,
          log, input, delivered, eintr_at, freed, td_sigs, tried,
          detect_ret>>

\* the variables of the command line parser
parse_vars == <<argv, optind, chain, param_device_name>>
\* the variables of the stdin loop
io_vars == <<stdin, sin, ptr, stdout>>
\* the history of signals
sig_vars == <<delivered, eintr_at, td_sigs>>
\* the state of one call of beep_drivers_detect
det_vars == <<tried, detect_ret>>

\* one entry of the call history: the call, the request (parms) it was made
\* for, its argument, and the driver handle passed
Ev(e, v) == [ev |-> e, req |-> parms, val |-> v, h |-> driver]

Init ==
    /\ argv \in ArgvSet
    /\ optind = 1
    /\ chain = <<DefaultParms>>
    /\ param_device_name = FALSE
    /\ pc = "start"
    /\ status = "running"
    /\ parms = 1
    /\ i = 0
    /\ sleep_kind = "length"
    /\ driver = 0
    /\ drv = "Unopened"
    /\ disp = [s \in Signals |-> "SIG_DFL"]
    /\ stdin \in (IF UsesStdin(argv) THEN Inputs ELSE {<<>>})
    /\ sin = <<>>
    /\ ptr = 1
    /\ stdout = <<>>
    /\ stdout_tty = FALSE
    /\ log = <<>>
    /\ input = stdin
    /\ delivered = 0
    /\ eintr_at = -1
    /\ freed = {}
    /\ td_sigs = 0
    /\ tried = <<>>
    /\ detect_ret = "pending"

\* exit(code), or main returning code: the process ends; pc stays at the
\* statement that ended it
Exit(code) ==
    /\ status' = code
    /\ pc' = pc

(* ---------------------- main: checks and parsing ---------------------- *)
\* the setuid/setgid and sudo checks at the top of main
StartChecks ==
    /\ status = "running" /\ pc = "start"
    /\ \E privileged \in BOOLEAN :
         IF privileged THEN Exit("failure")
         ELSE pc' = "parse" /\ status' = status
    /\ UNCHANGED <<parse_vars, parms, i, sleep_kind, driver, drv, disp,
                   io_vars, stdout_tty, log, input, sig_vars, freed, det_vars>>

\* the request parse_command_line's result points at: the last of the chain
Result == Len(chain)

\* the body of the switch for one option that sets a field of *result
SetField(o, v) ==
    CASE o = "f" -> [chain EXCEPT ![Result].freq = RoundTenths(v)]
      [] o = "l" -> [chain EXCEPT ![Result].length = v]
      [] o = "r" -> [chain EXCEPT ![Result].reps = v]
      [] o = "d" -> [chain EXCEPT ![Result].delay = v,
                                  ![Result].end_delay = END_DELAY_NO]
      [] o = "D" -> [chain EXCEPT ![Result].delay = v,
                                  ![Result].end_delay = END_DELAY_YES]
      [] o = "s" -> [chain EXCEPT ![Result].stdin_beep = STDIN_BEEP_LINE]
      [] o = "c" -> [chain EXCEPT ![Result].stdin_beep = STDIN_BEEP_CHAR]
      [] o = "n" -> Append([chain EXCEPT ![Result] = DefaultFreq(@)],
                           DefaultParms)
      [] OTHER -> chain

\* does the switch leave through usage_bail / exit(EXIT_FAILURE) for this option
OptionBails(o, v) ==
    \/ o = "f" /\ FreqOutOfRange(v)
    \/ o \in {"l", "r", "d", "D"} /\ ArgOutOfRange(v)
    \/ o = "e" /\ param_device_name
    \/ o = "?"

\* one iteration of the getopt_long loop; a non-option argument is skipped
\* (getopt permutes it behind the options)
ParseOption ==
    /\ status = "running" /\ pc = "parse"
    /\ optind <= Len(argv)
    /\ LET o == argv[optind].opt
           v == argv[optind].val
       IN  /\ optind' = optind + 1
           /\ IF OptionBails(o, v)
              THEN Exit("failure") /\ UNCHANGED <<chain, param_device_name>>
              ELSE IF o = "h"
              THEN Exit("success") /\ UNCHANGED <<chain, param_device_name>>
              ELSE /\ chain' = SetField(o, v)
                   /\ param_device_name' = (param_device_name \/ o = "e")
                   /\ UNCHANGED <<pc, status>>
    /\ UNCHANGED <<argv, parms, i, sleep_kind, driver, drv, disp, io_vars,
                   stdout_tty, log, input, sig_vars, freed, det_vars>>

\* after the loop: non-option arguments left, and the default frequency
ParseEnd ==
    /\ status = "running" /\ pc = "parse"
    /\ optind > Len(argv)
    /\ IF \E k \in 1..Len(argv) : argv[k].opt = "nonopt"
       THEN Exit("failure") /\ UNCHANGED chain
       ELSE /\ chain' = [chain EXCEPT ![Result] = DefaultFreq(@)]
            /\ pc' = "detect"
            /\ status' = status
    /\ UNCHANGED <<argv, optind, param_device_name, parms, i, sleep_kind,
                   driver, drv, disp, io_vars, stdout_tty, log, input,
                   sig_vars, freed, det_vars>>


(* ------------------------------ driver -------------------------------- *)
\* the lifecycle state of the handle after a driver call: begin_tone turns
\* the tone on, end_tone turns it off (harmless when none is on), fini
\* closes the handle
DrvAfter(call, s) ==
    CASE call = "start" -> "Sounding"
      [] call = "stop" -> IF s = "Sounding" THEN "Opened" ELSE s
      [] call = "close" -> "Closed"

\* FallbackBeep without the isatty test
FallbackBeep_Always(tty, out) == Append(out, "BEL")

\* fallback_beep: the bell character goes to stdout only if it is a tty
FallbackBeep(tty, out) == IF tty THEN Append(out, "BEL") ELSE out

\* Registry with the two registrations in the other order
Registry_Swapped == <<"evdev", "console">>

\* the registry after main's two beep_drivers_register calls
Registry == <<"console", "evdev">>

\* what a driver's open can answer
Outcomes == {"ok", "NotApplicable", "PermissionDenied", "NotFound"}

\* DetectPath that passes NULL whatever --device said
DetectPath_Null == FALSE

\* the argument main hands to beep_drivers_detect: param_device_name when
\* --device was given (TRUE), NULL otherwise (FALSE)
DetectPath == param_device_name

\* what detection does after the k-th registered driver answered r to open:
\* a success is returned at once; with an explicit path any error but
\* NotApplicable is returned at once; otherwise the next driver is tried,
\* and after the last one detection fails with NoDeviceAvailable
AfterOpen(path, r, k) ==
    IF r = "ok" THEN "handle"
    ELSE IF path /\ r # "NotApplicable" THEN r
    ELSE IF k = Len(Registry) THEN "NoDeviceAvailable"
    ELSE "pending"

\* inside beep_drivers_detect: open is attempted on the next driver of the
\* registry, and the environment decides what it answers
Probe ==
    /\ status = "running" /\ pc = "detect"
    /\ detect_ret = "pending"
    /\ Len(tried) < Len(Registry)
    /\ \E r \in Outcomes :
         LET k == Len(tried) + 1
         IN  /\ tried' = Append(tried, [drv |-> Registry[k], res |-> r])
             /\ detect_ret' = AfterOpen(DetectPath, r, k)
    /\ UNCHANGED <<parse_vars, pc, status, parms, i, sleep_kind, driver, drv,
                   disp, io_vars, stdout_tty, log, input, sig_vars, freed>>

\* driver = beep_drivers_detect(...) returned a handle
DetectOk ==
    /\ status = "running" /\ pc = "detect"
    /\ detect_ret = "handle"
    /\ driver' = 1
    /\ drv' = "Opened"
    /\ log' = Append(log, [ev |-> "open", req |-> 0, val |-> 0, h |-> 1])
    /\ pc' = "loop"
    /\ tried' = <<>>
    /\ detect_ret' = "pending"
    /\ UNCHANGED <<parse_vars, status, parms, i, sleep_kind, disp, io_vars,
                   stdout_tty, input, sig_vars, freed>>

\* driver = beep_drivers_detect(...) returned NULL: with --device the
\* process exits at once, without it fallback_beep runs first
DetectFail ==
    /\ status = "running" /\ pc = "detect"
    /\ detect_ret \notin {"pending", "handle"}
    /\ \E tty \in BOOLEAN : stdout_tty' = tty
    /\ IF param_device_name
       THEN Exit("failure")
       ELSE pc' = "fallback" /\ status' = status
    /\ tried' = <<>>
    /\ detect_ret' = "pending"
    /\ UNCHANGED <<parse_vars, parms, i, sleep_kind, driver, drv, disp,
                   io_vars, log, input, sig_vars, freed>>

\* fallback_beep(); exit(EXIT_FAILURE);
Fallback ==
    /\ status = "running" /\ pc = "fallback"
    /\ stdout' = FallbackBeep(stdout_tty, stdout)
    /\ Exit("failure")
    /\ UNCHANGED <<parse_vars, parms, i, sleep_kind, driver, drv, disp,
                   stdin, sin, ptr, stdout_tty, log, input, sig_vars, freed,
                   det_vars>>

(* ----------------------------- play_beep ------------------------------ *)
\* LoopCond with the bound off by one
LoopCond_Inclusive(p, k) == k <= p.reps

\* for (...; i < parms.reps; ...)
LoopCond(p, k) == k < p.reps

\* DelayWanted that takes i where the code takes i+1
DelayWanted_OffByOne(p, k) == p.end_delay = END_DELAY_YES \/ k < p.reps

\* (parms.end_delay == END_DELAY_YES) || ((i+1) < parms.reps)
DelayWanted(p, k) == p.end_delay = END_DELAY_YES \/ (k + 1) < p.reps

\* parms.freq & 0xffff
ToneArg(p) == p.freq % FREQ_MASK

\* where play_beep returns to in main, by the mode of the request played
ReturnPoint(p) ==
    CASE p.stdin_beep = STDIN_BEEP_NONE -> "free"
      [] p.stdin_beep = STDIN_BEEP_LINE -> "fgets"
      [] p.stdin_beep = STDIN_BEEP_CHAR -> "ptr_inc"

\* the call play_beep(driver, *parms): entry of the function
CallPlayBeep ==
    /\ i' = 0
    /\ pc' = "pb_test"
    /\ log' = Append(log, Ev("play", 0))

\* the loop test of play_beep; when it fails the function returns
PbTest ==
    /\ status = "running" /\ pc = "pb_test"
    /\ IF LoopCond(chain[parms], i)
       THEN pc' = "begin_tone" /\ log' = log
       ELSE /\ pc' = ReturnPoint(chain[parms])
            /\ log' = Append(log, Ev("ret", 0))
    /\ UNCHANGED <<parse_vars, status, parms, i, sleep_kind, driver, drv,
                   disp, io_vars, stdout_tty, input, sig_vars, freed,
                   det_vars>>

\* BeginTone that marks the sleep it enters as the delay sleep, so that
\* play_beep goes on behind it without beep_drivers_end_tone
BeginTone_NoEnd ==
    /\ status = "running" /\ pc = "begin_tone"
    /\ log' = Append(log, Ev("start", chain[parms].freq % FREQ_MASK))
    /\ drv' = DrvAfter("start", drv)
    /\ sleep_kind' = "delay"
    /\ pc' = "sl_sig_int"
    /\ UNCHANGED <<parse_vars, status, parms, i, driver, disp, io_vars,
                   stdout_tty, input, sig_vars, freed, det_vars>>

\* beep_drivers_begin_tone(driver, parms.freq & 0xffff); then sleep_ms is
\* entered for parms.length
BeginTone ==
    /\ status = "running" /\ pc = "begin_tone"
    /\ log' = Append(log, Ev("start", ToneArg(chain[parms])))
    /\ drv' = DrvAfter("start", drv)
    /\ sleep_kind' = "length"
    /\ pc' = "sl_sig_int"
    /\ UNCHANGED <<parse_vars, status, parms, i, driver, disp, io_vars,
                   stdout_tty, input, sig_vars, freed, det_vars>>

\* EndTone with the call to beep_drivers_end_tone left out
EndTone_NoStop ==
    /\ status = "running" /\ pc = "end_tone"
    /\ IF DelayWanted(chain[parms], i)
       THEN sleep_kind' = "delay" /\ pc' = "sl_sig_int"
       ELSE sleep_kind' = sleep_kind /\ pc' = "pb_inc"
    /\ UNCHANGED <<parse_vars, status, parms, i, driver, drv, disp, io_vars,
                   stdout_tty, log, input, sig_vars, freed, det_vars>>

\* beep_drivers_end_tone(driver) in the loop, and the test for the delay
EndTone ==
    /\ status = "running" /\ pc = "end_tone"
    /\ log' = Append(log, Ev("stop", 0))
    /\ drv' = DrvAfter("stop", drv)
    /\ IF DelayWanted(chain[parms], i)
       THEN sleep_kind' = "delay" /\ pc' = "sl_sig_int"
       ELSE sleep_kind' = sleep_kind /\ pc' = "pb_inc"
    /\ UNCHANGED <<parse_vars, status, parms, i, driver, disp, io_vars,
                   stdout_tty, input, sig_vars, freed, det_vars>>

\* PbInc that counts two repetitions for one
PbInc_Skip ==
    /\ status = "running" /\ pc = "pb_inc"
    /\ i' = i + 2
    /\ pc' = "pb_test"
    /\ UNCHANGED <<parse_vars, status, parms, sleep_kind, driver, drv, disp,
                   io_vars, stdout_tty, log, input, sig_vars, freed, det_vars>>

\* i++
PbInc ==
    /\ status = "running" /\ pc = "pb_inc"
    /\ i' = i + 1
    /\ pc' = "pb_test"
    /\ UNCHANGED <<parse_vars, status, parms, sleep_kind, driver, drv, disp,
                   io_vars, stdout_tty, log, input, sig_vars, freed, det_vars>>

(* ------------------------------ sleep_ms ------------------------------ *)
\* the milliseconds the active sleep_ms call was given
SleepMs == IF sleep_kind = "length" THEN chain[parms].length
           ELSE chain[parms].delay

\* signal(SIGINT, handle_signal);
SleepInstallInt ==
    /\ status = "running" /\ pc = "sl_sig_int"
    /\ disp' = [disp EXCEPT !["SIGINT"] = "handle_signal"]
    /\ pc' = "sl_sig_term"
    /\ UNCHANGED <<parse_vars, status, parms, i, sleep_kind, driver, drv,
                   io_vars, stdout_tty, log, input, sig_vars, freed, det_vars>>

\* signal(SIGTERM, handle_signal);
SleepInstallTerm ==
    /\ status = "running" /\ pc = "sl_sig_term"
    /\ disp' = [disp EXCEPT !["SIGTERM"] = "handle_signal"]
    /\ pc' = "sl_call"
    /\ UNCHANGED <<parse_vars, status, parms, i, sleep_kind, driver, drv,
                   io_vars, stdout_tty, log, input, sig_vars, freed, det_vars>>

\* nanosleep is entered: the process blocks
NanosleepEnter ==
    /\ status = "running" /\ pc = "sl_call"
    /\ log' = Append(log, Ev(sleep_kind, SleepMs))
    /\ pc' = "nanosleep"
    /\ UNCHANGED <<parse_vars, status, parms, i, sleep_kind, driver, drv,
                   disp, io_vars, stdout_tty, input, sig_vars, freed,
                   det_vars>>

\* nanosleep returns 0 after the full time
NanosleepReturn ==
    /\ status = "running" /\ pc = "nanosleep"
    /\ pc' = "sl_dfl_int"
    /\ UNCHANGED <<parse_vars, status, parms, i, sleep_kind, driver, drv,
                   disp, io_vars, stdout_tty, log, input, sig_vars, freed,
                   det_vars>>

\* signal(SIGINT, SIG_DFL);
SleepRestoreInt ==
    /\ status = "running" /\ pc = "sl_dfl_int"
    /\ disp' = [disp EXCEPT !["SIGINT"] = "SIG_DFL"]
    /\ pc' = "sl_dfl_term"
    /\ UNCHANGED <<parse_vars, status, parms, i, sleep_kind, driver, drv,
                   io_vars, stdout_tty, log, input, sig_vars, freed, det_vars>>

\* SleepRestoreTerm that leaves handle_signal installed for SIGTERM
SleepRestoreTerm_NoRestore ==
    /\ status = "running" /\ pc = "sl_dfl_term"
    /\ pc' = IF sleep_kind = "length" THEN "end_tone" ELSE "pb_inc"
    /\ UNCHANGED <<parse_vars, status, parms, i, sleep_kind, driver, drv,
                   disp, io_vars, stdout_tty, log, input, sig_vars, freed,
                   det_vars>>

\* signal(SIGTERM, SIG_DFL); return retcode;
SleepRestoreTerm ==
    /\ status = "running" /\ pc = "sl_dfl_term"
    /\ disp' = [disp EXCEPT !["SIGTERM"] = "SIG_DFL"]
    /\ pc' = IF sleep_kind = "length" THEN "end_tone" ELSE "pb_inc"
    /\ UNCHANGED <<parse_vars, status, parms, i, sleep_kind, driver, drv,
                   io_vars, stdout_tty, log, input, sig_vars, freed, det_vars>>

\* the interrupted branch: beep_drivers_end_tone(driver);
TdEndTone ==
    /\ status = "running" /\ pc = "td_end_tone"
    /\ log' = Append(log, Ev("stop", 0))
    /\ drv' = DrvAfter("stop", drv)
    /\ pc' = "td_fini"
    /\ UNCHANGED <<parse_vars, status, parms, i, sleep_kind, driver, disp,
                   io_vars, stdout_tty, input, sig_vars, freed, det_vars>>

\* TdFini with the call to beep_drivers_fini left out
TdFini_NoClose ==
    /\ status = "running" /\ pc = "td_fini"
    /\ pc' = "td_exit"
    /\ UNCHANGED <<parse_vars, status, parms, i, sleep_kind, driver, drv,
                   disp, io_vars, stdout_tty, log, input, sig_vars, freed,
                   det_vars>>

\* the interrupted branch: beep_drivers_fini(driver);
TdFini ==
    /\ status = "running" /\ pc = "td_fini"
    /\ log' = Append(log, Ev("close", 0))
    /\ drv' = DrvAfter("close", drv)
    /\ pc' = "td_exit"
    /\ UNCHANGED <<parse_vars, status, parms, i, sleep_kind, driver, disp,
                   io_vars, stdout_tty, input, sig_vars, freed, det_vars>>

\* TdExit without the exit: sleep_ms goes on to restore and return
TdExit_Returns ==
    /\ status = "running" /\ pc = "td_exit"
    /\ pc' = "sl_dfl_int"
    /\ UNCHANGED <<parse_vars, status, parms, i, sleep_kind, driver, drv,
                   disp, io_vars, stdout_tty, log, input, sig_vars, freed,
                   det_vars>>

\* the interrupted branch: exit(EXIT_FAILURE);
TdExit ==
    /\ status = "running" /\ pc = "td_exit"
    /\ Exit("failure")
    /\ UNCHANGED <<parse_vars, parms, i, sleep_kind, driver, drv, disp,
                   io_vars, stdout_tty, log, input, sig_vars, freed, det_vars>>

(* ------------------------------ signals ------------------------------- *)
\* a signal whose disposition is SIG_DFL terminates the process where it is
SignalKills ==
    /\ status = "running" /\ delivered < MaxSignals
    /\ \E sig \in Signals : disp[sig] = "SIG_DFL"
    /\ status' = "killed"
    /\ delivered' = delivered + 1
    /\ UNCHANGED <<parse_vars, pc, parms, i, sleep_kind, driver, drv, disp,
                   io_vars, stdout_tty, log, input, eintr_at, freed, td_sigs,
                   det_vars>>

\* SignalInterrupts with the dispositions restored before the teardown
SignalInterrupts_Restored ==
    /\ status = "running" /\ delivered < MaxSignals
    /\ pc = "nanosleep"
    /\ \E sig \in Signals : disp[sig] = "handle_signal"
    /\ delivered' = delivered + 1
    /\ eintr_at' = Len(log)
    /\ pc' = "td_end_tone"
    /\ disp' = [s \in Signals |-> "SIG_DFL"]
    /\ UNCHANGED <<parse_vars, status, parms, i, sleep_kind, driver, drv,
                   io_vars, stdout_tty, log, input, freed, td_sigs,
                   det_vars>>

\* a handled signal while the process is blocked in nanosleep: the handler
\* runs, nanosleep returns -1 with errno EINTR, the test at its return is true
SignalInterrupts ==
    /\ status = "running" /\ delivered < MaxSignals
    /\ pc = "nanosleep"
    /\ \E sig \in Signals : disp[sig] = "handle_signal"
    /\ delivered' = delivered + 1
    /\ eintr_at' = Len(log)
    /\ pc' = "td_end_tone"
    /\ UNCHANGED <<parse_vars, status, parms, i, sleep_kind, driver, drv,
                   disp, io_vars, stdout_tty, log, input, freed, td_sigs,
                   det_vars>>

\* a handled signal at any other statement: handle_signal runs and returns,
\* the program goes on where it was
SignalHandled ==
    /\ status = "running" /\ delivered < MaxSignals
    /\ pc # "nanosleep"
    /\ \E sig \in Signals : disp[sig] = "handle_signal"
    /\ delivered' = delivered + 1
    /\ td_sigs' = IF eintr_at >= 0 THEN td_sigs + 1 ELSE td_sigs
    /\ UNCHANGED <<parse_vars, pc, status, parms, i, sleep_kind, driver, drv,
                   disp, io_vars, stdout_tty, log, input, eintr_at, freed,
                   det_vars>>


(* ----------------------- main: the request loop ----------------------- *)
\* NextParms that stays on the request just freed
NextParms_Stay == parms

\* beep_parms_T *next = parms->next; ... parms = next;
NextParms == parms + 1

\* how many bytes fgets(sin, n, stdin) stores when s is what is left of
\* stdin: at most n-1, stopping after the first newline; 0 stands for the
\* NULL it returns at end of stream
FgetsLen(s, n) ==
    LET m == Min(Len(s), n - 1)
        nl == {k \in 1..m : s[k] = "NL"}
    IN  IF nl = {} THEN m ELSE Least(nl)

\* the C string a buffer holds: its bytes before the first NUL
CStr(buf) ==
    LET z == {k \in 1..Len(buf) : buf[k] = "NUL"}
    IN  IF z = {} THEN buf ELSE SubSeq(buf, 1, Least(z) - 1)

\* while (parms): the loop ends at NULL, a request with a stdin mode goes
\* to the read loop, any other request is played once
LoopHead ==
    /\ status = "running" /\ pc = "loop"
    /\ IF parms > Len(chain)
       THEN pc' = "final_end_tone" /\ UNCHANGED <<i, log>>
       ELSE IF chain[parms].stdin_beep # STDIN_BEEP_NONE
       THEN pc' = "fgets" /\ UNCHANGED <<i, log>>
       ELSE CallPlayBeep
    /\ UNCHANGED <<parse_vars, status, parms, sleep_kind, driver, drv, disp,
                   io_vars, stdout_tty, input, sig_vars, freed, det_vars>>

\* while (fgets(sin, 4096, stdin))
Fgets ==
    /\ status = "running" /\ pc = "fgets"
    /\ LET n == FgetsLen(stdin, SinSize)
       IN  IF n = 0
           THEN pc' = "free" /\ UNCHANGED <<stdin, sin, ptr>>
           ELSE /\ sin' = SubSeq(stdin, 1, n)
                /\ stdin' = Drop(stdin, n)
                /\ ptr' = 1
                /\ pc' = IF chain[parms].stdin_beep = STDIN_BEEP_CHAR
                         THEN "char_test" ELSE "fputs"
    /\ UNCHANGED <<parse_vars, status, parms, i, sleep_kind, driver, drv,
                   disp, stdout, stdout_tty, log, input, sig_vars, freed,
                   det_vars>>

\* for (...; *ptr; ...): the loop test of the per-character loop
CharTest ==
    /\ status = "running" /\ pc = "char_test"
    /\ pc' = IF ptr <= Len(CStr(sin)) THEN "putchar" ELSE "fgets"
    /\ UNCHANGED <<parse_vars, status, parms, i, sleep_kind, driver, drv,
                   disp, io_vars, stdout_tty, log, input, sig_vars, freed,
                   det_vars>>

\* putchar(*ptr); fflush(stdout); play_beep(driver, *parms);
Putchar ==
    /\ status = "running" /\ pc = "putchar"
    /\ stdout' = Append(stdout, sin[ptr])
    /\ i' = 0
    /\ pc' = "pb_test"
    /\ log' = log \o <<Ev("echo", 1), Ev("play", 0)>>
    /\ UNCHANGED <<parse_vars, status, parms, sleep_kind, driver, drv, disp,
                   stdin, sin, ptr, stdout_tty, input, sig_vars, freed,
                   det_vars>>

\* ptr++
PtrInc ==
    /\ status = "running" /\ pc = "ptr_inc"
    /\ ptr' = ptr + 1
    /\ pc' = "char_test"
    /\ UNCHANGED <<parse_vars, status, parms, i, sleep_kind, driver, drv,
                   disp, stdin, sin, stdout, stdout_tty, log, input,
                   sig_vars, freed, det_vars>>

\* fputs(sin, stdout); play_beep(driver, *parms);
Fputs ==
    /\ status = "running" /\ pc = "fputs"
    /\ stdout' = stdout \o CStr(sin)
    /\ i' = 0
    /\ pc' = "pb_test"
    /\ log' = log \o <<Ev("echo", Len(CStr(sin))), Ev("play", 0)>>
    /\ UNCHANGED <<parse_vars, status, parms, sleep_kind, driver, drv, disp,
                   stdin, sin, ptr, stdout_tty, input, sig_vars, freed,
                   det_vars>>

\* free(parms); parms = next;
Free ==
    /\ status = "running" /\ pc = "free"
    /\ freed' = freed \cup {parms}
    /\ log' = Append(log, Ev("free", 0))
    /\ parms' = NextParms
    /\ pc' = "loop"
    /\ UNCHANGED <<parse_vars, status, i, sleep_kind, driver, drv, disp,
                   io_vars, stdout_tty, input, sig_vars, det_vars>>

\* after the loop: beep_drivers_end_tone(driver);
FinalEndTone ==
    /\ status = "running" /\ pc = "final_end_tone"
    /\ log' = Append(log, Ev("stop", 0))
    /\ drv' = DrvAfter("stop", drv)
    /\ pc' = "final_fini"
    /\ UNCHANGED <<parse_vars, status, parms, i, sleep_kind, driver, disp,
                   io_vars, stdout_tty, input, sig_vars, freed, det_vars>>

\* beep_drivers_fini(driver);
FinalFini ==
    /\ status = "running" /\ pc = "final_fini"
    /\ log' = Append(log, Ev("close", 0))
    /\ drv' = DrvAfter("close", drv)
    /\ pc' = "return"
    /\ UNCHANGED <<parse_vars, status, parms, i, sleep_kind, driver, disp,
                   io_vars, stdout_tty, input, sig_vars, freed, det_vars>>

\* return EXIT_SUCCESS;
Return ==
    /\ status = "running" /\ pc = "return"
    /\ Exit("success")
    /\ UNCHANGED <<parse_vars, parms, i, sleep_kind, driver, drv, disp,
                   io_vars, stdout_tty, log, input, sig_vars, freed, det_vars>>

(* --------------------------- specification ---------------------------- *)
Next ==
    \/ StartChecks \/ ParseOption \/ ParseEnd
    \/ Probe \/ DetectOk \/ DetectFail \/ Fallback
    \/ LoopHead \/ Fgets \/ CharTest \/ Putchar \/ PtrInc \/ Fputs \/ Free
    \/ PbTest \/ BeginTone \/ EndTone \/ PbInc
    \/ SleepInstallInt \/ SleepInstallTerm \/ NanosleepEnter
    \/ NanosleepReturn \/ SleepRestoreInt \/ SleepRestoreTerm
    \/ TdEndTone \/ TdFini \/ TdExit
    \/ FinalEndTone \/ FinalFini \/ Return
    \/ SignalKills \/ SignalInterrupts \/ SignalHandled

Spec == Init /\ [][Next]_vars

\* the steps of the program itself, as opposed to the arrival of a signal
Program ==
    \/ StartChecks \/ ParseOption \/ ParseEnd
    \/ Probe \/ DetectOk \/ DetectFail \/ Fallback
    \/ LoopHead \/ Fgets \/ CharTest \/ Putchar \/ PtrInc \/ Fputs \/ Free
    \/ PbTest \/ BeginTone \/ EndTone \/ PbInc
    \/ SleepInstallInt \/ SleepInstallTerm \/ NanosleepEnter
    \/ NanosleepReturn \/ SleepRestoreInt \/ SleepRestoreTerm
    \/ TdEndTone \/ TdFini \/ TdExit
    \/ FinalEndTone \/ FinalFini \/ Return

\* The process is single-threaded and always scheduled: its next statement
\* is eventually executed, a nanosleep of a finite time returns, fgets
\* returns (with data or at end of stream).  Signals may or may not arrive.
LiveSpec == Init /\ [][Next]_vars /\ WF_vars(Program)


(* ------------------------- reading the history ------------------------ *)
\* the positions of the history
Pos == 1..Len(log)

\* how many times the call e was made
Count(e) == Cardinality({k \in Pos : log[k].ev = e})

\* the names of the calls among es, in the order they were made
Calls(es) ==
    LET Keep(x) == x.ev \in es
        kept == SelectSeq(log, Keep)
    IN  [k \in 1..Len(kept) |-> kept[k].ev]

\* the bytes of a sequence, as a set
Range(s) == {s[k] : k \in 1..Len(s)}

(* ------------------------------- claims ------------------------------- *)

\* C1 (as stated): a SIGINT/SIGTERM delivered while a tone is active never
\* terminates the process with the driver still Sounding.  The code
\* installs its handler only inside sleep_ms, so a signal delivered between
\* beep_drivers_begin_tone and signal(SIGINT, handle_signal), or for SIGTERM
\* up to signal(SIGTERM, handle_signal), or after the restore to SIG_DFL and
\* before beep_drivers_end_tone, meets SIG_DFL and kills the process.
C1_NeverKilledWhileSounding == status = "killed" => drv # "Sounding"

\* C2: once nanosleep in sleep_ms has returned interrupted (in the length
\* sleep or in the delay sleep, in any repetition of any request), the only
\* calls made from then on are one stop_tone and then one close, both on
\* the current driver; the process is not killed, does not return success,
\* and when it has ended it has ended with failure after exactly these two
\* calls: no begin_tone, repetition, echo, play or free follows.
C2_InterruptTeardown ==
    eintr_at >= 0 =>
        LET after == Drop(log, eintr_at)
        IN  /\ Len(after) <= 2
            /\ Len(after) >= 1 => after[1] = Ev("stop", 0)
            /\ Len(after) >= 2 => after[2] = Ev("close", 0)
            /\ status \in {"running", "failure"}
            /\ pc \in {"td_end_tone", "td_fini", "td_exit"}
            /\ status = "failure" => Len(after) = 2 /\ drv = "Closed"
            /\ driver = 1

\* C2 witness: the delay sleep of a request that has a successor in the
\* chain was interrupted, and the process has exited with failure
C2_Witness ==
    /\ eintr_at >= 0 /\ status = "failure"
    /\ sleep_kind = "delay"
    /\ parms < Len(chain)


\* a run of one request that came to its normal end without an interrupted
\* sleep: main returned, so no signal killed the process either
SingleRequestDone ==
    /\ status = "success" /\ pc = "return"
    /\ eintr_at = -1
    /\ Len(chain) = 1

\* C3 (as stated): in a run whose only request has reps == 0, start_tone and
\* stop_tone are never called, while the device is opened once and closed
\* once.
C3_Original ==
    (SingleRequestDone /\ chain[1].reps = 0) =>
        /\ Count("start") = 0 /\ Count("stop") = 0
        /\ Count("open") = 1 /\ Count("close") = 1

\* C3 (amended): in a run whose only request has reps == 0, start_tone is
\* never called and play_beep never calls stop_tone; the device is opened
\* once and closed once, and the one stop_tone call of the run is the
\* beep_drivers_end_tone main makes after the request loop, right before
\* the close.
C3_ZeroReps ==
    (SingleRequestDone /\ chain[1].reps = 0) =>
        /\ Calls({"open", "start", "stop", "close"}) = <<"open", "stop", "close">>
        /\ \A k \in Pos : log[k].ev = "stop" =>
               /\ log[k].req = Len(chain) + 1
               /\ k = Len(log) - 1
        /\ log[Len(log)].ev = "close"

\* C3 witness: such a run has ended
C3_Witness ==
    /\ SingleRequestDone /\ chain[1].reps = 0
    /\ Count("play") = 1

\* the start_tone and stop_tone calls of the run, in order
ToneCalls == Calls({"start", "stop"})

\* C4 (as stated): for a single uninterrupted request with reps == n > 0,
\* start_tone and stop_tone are each called exactly n times, strictly
\* alternating, beginning with start_tone.
C4_Original ==
    (SingleRequestDone /\ chain[1].reps > 0
        /\ chain[1].stdin_beep = STDIN_BEEP_NONE) =>
        /\ Count("start") = chain[1].reps
        /\ Count("stop") = chain[1].reps
        /\ \A k \in 1..Len(ToneCalls) :
               ToneCalls[k] = IF k % 2 = 1 THEN "start" ELSE "stop"

\* C4 (amended): for a single uninterrupted request with reps == n > 0 that
\* play_beep is invoked for P times (P = 1 without a stdin mode), start_tone
\* is called exactly n*P times and stop_tone exactly n*P + 1 times: n*P
\* strictly alternating start, stop pairs beginning with start_tone, made by
\* play_beep, and then one more stop_tone made by main right before close.
\* No two start_tone calls are consecutive.
C4_Alternating ==
    (SingleRequestDone /\ chain[1].reps > 0) =>
        LET n == chain[1].reps
            P == Count("play")
        IN  /\ chain[1].stdin_beep = STDIN_BEEP_NONE => P = 1
            /\ Count("start") = n * P
            /\ Count("stop") = n * P + 1
            /\ Len(ToneCalls) = 2 * n * P + 1
            /\ \A k \in 1..(2 * n * P) :
                   ToneCalls[k] = IF k % 2 = 1 THEN "start" ELSE "stop"
            /\ ToneCalls[2 * n * P + 1] = "stop"
            /\ \A k \in Pos : log[k].ev = "stop" =>
                   (log[k].req = Len(chain) + 1 <=> k = Len(log) - 1)

\* C4 witness: a request with reps >= 2 and no stdin mode was played to the
\* end
C4_Witness ==
    /\ SingleRequestDone
    /\ chain[1].reps >= 2
    /\ chain[1].stdin_beep = STDIN_BEEP_NONE
    /\ Count("start") = chain[1].reps

\* the history of the invocation of play_beep that has just returned: what
\* follows the last "play" entry, without the closing "ret"
LastPlayed ==
    LET k == CHOOSE m \in Pos : log[m].ev = "play"
                 /\ \A j \in Pos : log[j].ev = "play" => j <= m
    IN  SubSeq(log, k + 1, Len(log) - 1)

\* play_beep has just returned
JustReturned == Len(log) > 0 /\ log[Len(log)].ev = "ret"

\* C5: in an invocation of play_beep with reps == n > 0 that was not
\* interrupted, the delay sleep occurs exactly n-1 times when end_delay is
\* not set and exactly n times when it is; each delay sleep directly
\* follows a stop_tone; without end_delay the invocation ends with the
\* stop_tone of the last repetition, and the delay is the request's.
C5_DelayCount ==
    (JustReturned /\ chain[parms].reps > 0) =>
        LET seg == LastPlayed
            n == chain[parms].reps
            delays == {k \in 1..Len(seg) : seg[k].ev = "delay"}
        IN  /\ Cardinality(delays) =
                   IF chain[parms].end_delay = END_DELAY_YES THEN n ELSE n - 1
            /\ \A k \in delays : k > 1 /\ seg[k - 1].ev = "stop"
            /\ \A k \in delays : seg[k].val = chain[parms].delay
            /\ seg[Len(seg)].ev =
                   IF chain[parms].end_delay = END_DELAY_YES
                   THEN "delay" ELSE "stop"

\* C5 witness: an invocation with reps >= 2 and no end delay has returned
\* after its inter-repetition delay
C5_Witness ==
    /\ JustReturned
    /\ chain[parms].reps >= 2
    /\ chain[parms].end_delay = END_DELAY_NO
    /\ \E k \in 1..Len(LastPlayed) : LastPlayed[k].ev = "delay"

\* C5 second case, reached as well: end_delay set
C5_WitnessEndDelay ==
    /\ JustReturned
    /\ chain[parms].reps >= 2
    /\ chain[parms].end_delay = END_DELAY_YES


\* the request an option of argv belongs to: one more than the number of
\* -n before it
RequestOf(k) == 1 + Cardinality({m \in 1..(k - 1) : argv[m].opt = "n"})

\* the positions in argv of the -f options of request j
FreqArgs(j) ==
    {k \in 1..Len(argv) : argv[k].opt = "f" /\ RequestOf(k) = j}

\* the frequency requested for request j, in tenths of a Hz: its last -f
Requested(j) ==
    argv[CHOOSE k \in FreqArgs(j) : \A m \in FreqArgs(j) : m <= k].val

\* round(f) for f = t/10: the integer nearest to f, halves going up
Nearest(t) ==
    CHOOSE n \in 0..(MAX_FREQ + 1) : 10 * n - 5 <= t /\ t < 10 * n + 5

\* C6 (as stated): for every frequency f in [0, 20000] given with -f, the
\* value delivered to beep_drivers_begin_tone for that request equals
\* round(f) & 0xFFFF, f = 0 included.  The parser keeps 0 for "no -f given",
\* so a request whose -f rounds to 0 is played at DEFAULT_FREQ.
C6_DeliveredFrequency ==
    \A k \in Pos :
        (log[k].ev = "start" /\ FreqArgs(log[k].req) # {}) =>
            log[k].val = Nearest(Requested(log[k].req)) % FREQ_MASK

\* what holds of the code instead: a requested frequency that rounds to 0
\* is delivered as DEFAULT_FREQ, every other one as round(f) & 0xFFFF
C6_DeliveredOrDefault ==
    \A k \in Pos :
        (log[k].ev = "start" /\ FreqArgs(log[k].req) # {}) =>
            LET r == Nearest(Requested(log[k].req))
            IN  log[k].val = IF r = 0 THEN DEFAULT_FREQ ELSE r % FREQ_MASK

\* the positions of the history that belong to request j
Of(j) == {k \in Pos : log[k].req = j}

\* C7: the requests of a chain are played strictly in chain order (the
\* request an entry of the history was made for never decreases along the
\* history, so everything done for request j precedes everything done for
\* request j+1), every driver call is made on the one handle the single
\* detection returned, each request is freed right after its last play (or,
\* for a request that is played once, right after that play) and nothing
\* is played for a request after it was freed; a run that ends normally
\* has freed every request of the chain.
C7_ChainOrder ==
    /\ \A k \in 1..(Len(log) - 1) : log[k].req <= log[k + 1].req
    /\ Count("open") <= 1
    /\ \A k \in Pos : log[k].ev \in {"start", "stop", "close"} =>
           log[k].h = 1 /\ log[1].ev = "open"
    /\ \A k \in Pos : log[k].ev = "free" =>
           LET j == log[k].req
               plays == {m \in 1..k : log[m].ev = "play" /\ log[m].req = j}
           IN  /\ k < Len(log) => log[k + 1].req > j
               /\ chain[j].stdin_beep = STDIN_BEEP_NONE =>
                      Cardinality(plays) = 1
               /\ plays # {} => log[k - 1] = [log[k] EXCEPT !.ev = "ret"]
    /\ freed = {log[k].req : k \in {m \in Pos : log[m].ev = "free"}}
    /\ \A j \in freed : j < parms
    /\ (status = "success" /\ pc = "return") => freed = 1..Len(chain)

\* C7 witness: a chain of two requests of two repetitions each was played
\* to the end
C7_Witness ==
    /\ status = "success" /\ pc = "return"
    /\ eintr_at = -1
    /\ Len(chain) >= 2
    /\ \A j \in 1..Len(chain) :
           Cardinality({m \in Of(j) : log[m].ev = "start"}) >= 2

\* C8 (as stated): in every execution in which the driver was opened and
\* the process terminates (normally, by interrupt teardown, or by a signal
\* arriving at any program point), close has been called exactly once.
\* A signal that meets SIG_DFL ends the process without any close.
C8_ClosedExactlyOnce ==
    (driver # 0 /\ status # "running") => Count("close") = 1

\* what holds of the code instead: close is called once when the process
\* returns from main or exits through the teardown of sleep_ms, never
\* twice, and not at all when a signal kills the process before main's
\* beep_drivers_fini
C8_ClosedOnExit ==
    /\ Count("close") <= 1
    /\ (driver # 0 /\ status \in {"success", "failure"}) => Count("close") = 1
    /\ (status = "killed" /\ pc # "return") => Count("close") = 0

\* the number of units of an input: its characters in per-character mode,
\* its lines (a last line without newline counts) in per-line mode
Units(in, mode) ==
    IF mode = STDIN_BEEP_CHAR THEN Len(in)
    ELSE Cardinality({k \in 1..Len(in) : in[k] = "NL"})
         + (IF Len(in) > 0 /\ in[Len(in)] # "NL" THEN 1 ELSE 0)

\* the echo and play entries of the history, in order
EchoPlay == Calls({"echo", "play"})

\* C9 (as stated), for input free of NUL bytes: in stdin-triggered mode
\* every unit of input (line or character), whatever the length of a line
\* relative to the read buffer, is echoed verbatim and then triggers
\* exactly one invocation of play_beep, until end of stream.  fgets hands
\* over a line longer than the buffer in pieces, and each piece is echoed
\* and played.
C9_OnePlayPerUnit ==
    (SingleRequestDone /\ chain[1].stdin_beep # STDIN_BEEP_NONE
        /\ "NUL" \notin Range(input)) =>
        /\ stdout = input
        /\ Count("play") = Units(input, chain[1].stdin_beep)
        /\ Count("echo") = Count("play")
        /\ \A k \in 1..Len(EchoPlay) :
               EchoPlay[k] = IF k % 2 = 1 THEN "echo" ELSE "play"

\* what holds of the code instead: the input is echoed verbatim, and each
\* piece fgets returns (per-line mode) or each character (per-character
\* mode) is echoed and then played once
C9_OnePlayPerPiece ==
    (SingleRequestDone /\ chain[1].stdin_beep # STDIN_BEEP_NONE
        /\ "NUL" \notin Range(input)) =>
        /\ stdout = input
        /\ Count("play") >= Units(input, chain[1].stdin_beep)
        /\ chain[1].stdin_beep = STDIN_BEEP_CHAR => Count("play") = Len(input)
        /\ \A k \in 1..Len(EchoPlay) :
               EchoPlay[k] = IF k % 2 = 1 THEN "echo" ELSE "play"

\* detection has failed: main is at, or has exited from, one of the two
\* "if (!driver)" branches
DetectFailed ==
    \/ pc = "fallback"
    \/ pc = "detect" /\ status = "failure"

\* C10: when beep_drivers_detect fails the process makes no start_tone,
\* stop_tone or close call and, when it ends of its own, ends with failure;
\* once it has exited, the bell character has been written if and only if
\* no explicit device path was given and stdout is a terminal; the bell is
\* never written when an explicit path was given or a driver was opened.
C10_DetectFailure ==
    /\ DetectFailed =>
           /\ log = <<>> /\ driver = 0 /\ drv = "Unopened"
           /\ status \in {"running", "failure", "killed"}
           /\ status = "failure" =>
                  ("BEL" \in Range(stdout)
                       <=> (~param_device_name /\ stdout_tty))
    /\ (param_device_name \/ driver # 0) => "BEL" \notin Range(stdout)
    /\ "BEL" \in Range(stdout) => DetectFailed /\ stdout = <<"BEL">>

\* C10 witness: detection failed without --device on a terminal, the bell
\* was written and the process exited with failure
C10_Witness ==
    /\ DetectFailed /\ status = "failure"
    /\ ~param_device_name /\ stdout_tty
    /\ stdout = <<"BEL">>

\* C10, the other cases, reached as well: with --device, and not a terminal
C10_WitnessExplicit ==
    /\ DetectFailed /\ status = "failure"
    /\ param_device_name /\ stdout_tty /\ stdout = <<>>


\* the opens attempted follow the registration order of main: the console
\* driver first, then the evdev driver, and no third attempt
TriedInOrder ==
    /\ Len(tried) <= 2
    /\ Len(tried) >= 1 => tried[1].drv = "console"
    /\ Len(tried) >= 2 => tried[2].drv = "evdev"

\* the answer of the last open attempted
LastRes == tried[Len(tried)].res

\* C11: detection without an explicit path probes the registry in
\* registration order (console driver, then evdev driver); it returns a
\* handle exactly when the open just attempted succeeded, so the descriptor
\* returned is the first one whose open succeeds and no open is attempted
\* after it; every failure, whatever its kind, moves on to the next driver;
\* when every open has failed the result is NoDeviceAvailable.
C11_FirstSuccess ==
    (pc = "detect" /\ ~param_device_name) =>
        /\ TriedInOrder
        /\ \A k \in 1..(Len(tried) - 1) : tried[k].res # "ok"
        /\ detect_ret = "handle" <=> (tried # <<>> /\ LastRes = "ok")
        /\ detect_ret = "NoDeviceAvailable" <=>
               (Len(tried) = 2 /\ \A k \in 1..2 : tried[k].res # "ok")
        /\ detect_ret \in {"pending", "handle", "NoDeviceAvailable"}
        /\ (detect_ret = "pending" /\ status = "running") => ENABLED Probe

\* C11 witness: the console driver failed to open, the evdev driver opened
\* and detection returned its handle
C11_Witness ==
    /\ pc = "detect" /\ ~param_device_name
    /\ Len(tried) = 2 /\ tried[1].res = "PermissionDenied"
    /\ detect_ret = "handle"

\* C11, the other cases, reached as well: the first driver opens and the
\* second is never tried; every driver fails
C11_WitnessFirst ==
    /\ pc = "detect" /\ ~param_device_name
    /\ Len(tried) = 1 /\ detect_ret = "handle"

C11_WitnessNone ==
    /\ pc = "detect" /\ ~param_device_name
    /\ detect_ret = "NoDeviceAvailable"

\* C12: detection with an explicit path: a driver that declines with
\* NotApplicable is followed by the next driver in registry order; a driver
\* that fails with any other error ends detection with that error, and no
\* open is attempted on a later driver; a success is returned at once.
C12_ExplicitPath ==
    (pc = "detect" /\ param_device_name) =>
        /\ TriedInOrder
        /\ \A k \in 1..(Len(tried) - 1) : tried[k].res = "NotApplicable"
        /\ detect_ret = "handle" <=> (tried # <<>> /\ LastRes = "ok")
        /\ (tried # <<>> /\ LastRes \in {"PermissionDenied", "NotFound"}) =>
               detect_ret = LastRes
        /\ detect_ret = "NoDeviceAvailable" <=>
               (Len(tried) = 2 /\ \A k \in 1..2 : tried[k].res = "NotApplicable")
        /\ (detect_ret = "pending" /\ status = "running") => ENABLED Probe

\* C12 witness: the console driver answered PermissionDenied for the path
\* and detection returned that error without trying the evdev driver
C12_Witness ==
    /\ pc = "detect" /\ param_device_name
    /\ Len(tried) = 1 /\ tried[1].res = "PermissionDenied"
    /\ detect_ret = "PermissionDenied"

\* C12, the other case, reached as well: the console driver declined and
\* the evdev driver opened the path
C12_WitnessDeclined ==
    /\ pc = "detect" /\ param_device_name
    /\ Len(tried) = 2 /\ tried[1].res = "NotApplicable"
    /\ detect_ret = "handle"


\* C13 (as stated): every SIGINT/SIGTERM delivered while sleep_ms has the
\* no-op handler installed leads to tone shutdown, close and exit with
\* failure; none is consumed with playback going on.  A signal the process
\* survives was caught by handle_signal, so a run that returns success from
\* main has had no signal delivered.  The handler does nothing, and a signal
\* caught before nanosleep blocks or after it returned 0 is lost.
C13_NoSignalConsumed == status = "success" => delivered = 0

\* what holds of the code instead: a caught signal leads to the teardown
\* exactly when it arrives while the process is blocked in nanosleep
C13_OnlyDuringNanosleep ==
    /\ eintr_at >= 0 => delivered > 0
    /\ (status = "success" /\ delivered > 0) => eintr_at = -1

\* both signals have their default disposition
AllDefault == \A sig \in Signals : disp[sig] = "SIG_DFL"

\* both signals are caught by handle_signal
AllHandled == \A sig \in Signals : disp[sig] = "handle_signal"

\* the statements that call into the driver, on the normal path and in the
\* interrupted branch of sleep_ms, and those that write and flush stdout
NormalCallPcs ==
    {"detect", "begin_tone", "end_tone", "final_end_tone", "final_fini"}
TeardownPcs == {"td_end_tone", "td_fini", "td_exit"}
OutputPcs == {"putchar", "fputs", "fallback"}

\* C14 (as stated): whenever the program is executing a driver call or
\* flushing output, SIGINT and SIGTERM have their default dispositions, the
\* interrupted path included.
C14_Original ==
    (status = "running"
        /\ pc \in NormalCallPcs \cup {"td_end_tone", "td_fini"} \cup OutputPcs)
    => AllDefault

\* C14 (amended): whenever the program is executing a driver call on the
\* normal path (detect, begin_tone, end_tone in play_beep and in main, fini
\* in main) or writing output, SIGINT and SIGTERM have their default
\* dispositions; the handler is installed only inside sleep_ms, from its
\* signal() calls to their undoing at the normal return; on the
\* interrupted path it is never undone: end_tone, fini and exit run with
\* the handler installed for both signals.
C14_DefaultOutsideSleep ==
    /\ pc \in NormalCallPcs \cup OutputPcs => AllDefault
    /\ ~AllDefault =>
           pc \in {"sl_sig_term", "sl_call", "nanosleep", "sl_dfl_int",
                   "sl_dfl_term"} \cup TeardownPcs
    /\ pc \in {"sl_call", "nanosleep", "sl_dfl_int"} \cup TeardownPcs
           => AllHandled
    /\ pc \in TeardownPcs <=> eintr_at >= 0

\* C14 witness: a sleep has returned normally and play_beep is about to
\* call beep_drivers_end_tone, with delivered signals caught on the way
C14_Witness ==
    /\ status = "running" /\ pc = "end_tone"
    /\ delivered > 0
    /\ AllDefault

\* the driver calls of the run that change the lifecycle state, in order
LifeCalls == Calls({"open", "start", "stop", "close"})

\* C15: over any sequence of play_beep invocations the driver follows
\* Unopened -> Opened -> {Sounding <-> Opened} -> Closed: start_tone is
\* called only in state Opened, never while Sounding, never before the
\* open or after the close; Sounding is the state exactly from a
\* start_tone to the next stop_tone; at every return from play_beep the
\* driver is Opened.
C15_Lifecycle ==
    /\ drv = "Unopened" <=> LifeCalls = <<>>
    /\ drv = "Sounding" <=>
           (LifeCalls # <<>> /\ LifeCalls[Len(LifeCalls)] = "start")
    /\ drv = "Closed" <=>
           (LifeCalls # <<>> /\ LifeCalls[Len(LifeCalls)] = "close")
    /\ \A k \in 1..Len(LifeCalls) :
           LifeCalls[k] = "start" =>
               k > 1 /\ LifeCalls[k - 1] \in {"open", "stop"}
    /\ (status = "running" /\ pc = "begin_tone") => drv = "Opened"
    /\ JustReturned => drv = "Opened"

\* C15 witness: the second of two invocations of play_beep that each
\* sounded a tone has returned
C15_Witness ==
    /\ JustReturned
    /\ Count("play") >= 2
    /\ Count("start") >= 2 * Count("play")

\* C16: after beep_drivers_fini was called, on the normal path or in the
\* teardown of sleep_ms, no begin_tone, end_tone or fini call follows (and
\* no other call of the history): the close is the last thing done, and
\* the program is at the exit or return that follows it.
C16_ClosedIsFinal ==
    /\ \A k \in Pos : log[k].ev = "close" => k = Len(log)
    /\ drv = "Closed" => pc \in {"td_exit", "return"}

\* C16 witness: the teardown of sleep_ms closed the driver while requests
\* were left to play, and the process has exited
C16_Witness ==
    /\ drv = "Closed" /\ status = "failure"
    /\ pc = "td_exit"
    /\ chain[parms].reps > i + 1

\* C17: once sleep_ms has seen the interrupted wait, SIGINT and SIGTERM are
\* both still caught by handle_signal until the exit, so no further signal
\* terminates the process: it is never killed, and it does not end before
\* beep_drivers_end_tone and beep_drivers_fini were both called.
C17_TeardownProtected ==
    eintr_at >= 0 =>
        /\ AllHandled
        /\ status # "killed"
        /\ ~ENABLED SignalKills
        /\ status # "running" =>
               /\ \E k \in Pos : k > eintr_at /\ log[k].ev = "stop"
               /\ log[Len(log)].ev = "close"
        /\ td_sigs > 0 => pc \in TeardownPcs

\* C17 witness: a second signal arrived during the teardown, and the
\* process still stopped the tone, closed the driver and exited
C17_Witness ==
    /\ eintr_at >= 0 /\ td_sigs >= 1
    /\ status = "failure"
    /\ drv = "Closed"


\* how many times play_beep was invoked for request j of the chain
Plays(j) == Cardinality({k \in Of(j) : log[k].ev = "play"})

\* how many pieces of input were echoed while request j was the active one
Echoes(j) == Cardinality({k \in Of(j) : log[k].ev = "echo"})

\* the requests of the chain that are in a stdin mode
StdinReqs == {j \in 1..Len(chain) : chain[j].stdin_beep # STDIN_BEEP_NONE}

\* main has returned success, no wait was interrupted
ChainDone ==
    /\ status = "success" /\ pc = "return"
    /\ eintr_at = -1

\* C18 (as stated), for input free of NUL bytes: in a chain a request with
\* stdin mode none is played exactly once; a request in a stdin mode is
\* played once per unit of input (line or character) read while it is the
\* active request, which is all of the input for the first such request;
\* later stdin-mode requests are played zero times.  The per-line request
\* is played once per piece fgets returns, and a line longer than the
\* buffer is several pieces (the defect of C9).
C18_Original ==
    (ChainDone /\ "NUL" \notin Range(input)) =>
        \A j \in 1..Len(chain) :
            Plays(j) = IF j \notin StdinReqs THEN 1
                       ELSE IF j = Least(StdinReqs)
                            THEN Units(input, chain[j].stdin_beep)
                       ELSE 0

\* what holds of the code instead: once per piece echoed, which is once per
\* character in per-character mode and at least once per line in per-line
\* mode
C18_OncePerPiece ==
    (ChainDone /\ "NUL" \notin Range(input)) =>
        \A j \in 1..Len(chain) :
            /\ j \notin StdinReqs => Plays(j) = 1 /\ Echoes(j) = 0
            /\ j \in StdinReqs => Plays(j) = Echoes(j)
            /\ (j \in StdinReqs /\ j = Least(StdinReqs)) =>
                   /\ Plays(j) >= Units(input, chain[j].stdin_beep)
                   /\ chain[j].stdin_beep = STDIN_BEEP_CHAR =>
                          Plays(j) = Len(input)
            /\ (j \in StdinReqs /\ j # Least(StdinReqs)) => Plays(j) = 0

\* the sum of the reps of the requests from request j on
RECURSIVE SumRepsFrom(_)
SumRepsFrom(j) ==
    IF j > Len(chain) THEN 0 ELSE chain[j].reps + SumRepsFrom(j + 1)

\* the sum of the reps of the chain
SumReps == SumRepsFrom(1)

\* main is in its request loop, on a chain with no stdin-mode request
PlayingChain ==
    /\ status = "running" /\ pc = "loop"
    /\ driver # 0
    /\ StdinReqs = {}

\* main has returned success with the driver closed after exactly SumReps
\* tone activations, each one stopped
SuccessAfterSumReps ==
    /\ status = "success" /\ pc = "return"
    /\ drv = "Closed"
    /\ Count("start") = SumReps
    /\ Count("close") = 1

\* C19: for a chain with no stdin-mode request, once the command line is
\* parsed and the driver detected, the program terminates with success
\* after exactly sum(reps) tone activations and with the driver Closed,
\* unless a signal is delivered; and whenever such a run has returned
\* success with no signal delivered, that is the count.
C19_Terminates ==
    /\ PlayingChain ~> (delivered > 0 \/ SuccessAfterSumReps)
    /\ []((status = "success" /\ pc = "return" /\ StdinReqs = {}
               /\ delivered = 0)
            => SuccessAfterSumReps)

\* C19 witness: a chain of two requests with more than MaxReps repetitions
\* between them has run to success with no signal delivered
C19_Witness ==
    /\ SuccessAfterSumReps
    /\ delivered = 0
    /\ StdinReqs = {}
    /\ Len(chain) >= 2
    /\ SumReps > MaxReps

====
